---- MODULE Spec2Model ----
(***************************************************************************)
(* Model of the external-access layer of hojo_py:                          *)
(*   - call_jgrants_api (app.py): the retrying GET client,                 *)
(*   - MCPClient (app_simple.py): the session-scoped tool-call client,     *)
(*   - extract_search_params_with_llm (app.py): the query extractor.       *)
(* Each component has its own specification over the shared variables;     *)
(* the variables of the other components stay at their initial values.     *)
(***************************************************************************)
EXTENDS Integers, Sequences, FiniteSets, TLC

VARIABLES
    \* ---- call_jgrants_api (app.py:55-129)
    api_pc,        \* "idle" | "attempt" | "inflight" | "sleep" | "returned"
    max_retries,   \* the max_retries argument of the running call
    attempt,       \* the loop variable of `for attempt in range(max_retries)`
    requests,      \* GET requests sent by the running call
    history,       \* the outcome of every request of the running call, in order
    sleepLeft,     \* seconds left of the running asyncio.sleep
    slept,         \* seconds the running asyncio.sleep has lasted so far
    waits,         \* the durations of the completed backoff waits, in order
    api_ret,       \* the value the call returned
    unverified,    \* requests sent on a connection without certificate validation
    tls_flags,     \* warnings or log entries about such a connection that got through
    \* ---- MCPClient (app_simple.py:26-110)
    session_id,    \* MCPClient.session_id
    concurrent,    \* whether the callers let call_tool calls overlap
    mcp_pc,        \* per caller: "idle" | "await_init" | "headers" | "set_header" | "await_call"
    calls,         \* call_tool calls started on the client
    callLog,       \* per caller: the requests its running (or last) call has sent
    noSessionAtEntry, \* per caller: line 70 found no session identifier
    lastInit,      \* per caller: the handshake response its call received
    hdr,           \* per caller: the mcp-session-id header of its tools/call request
    lastResp,      \* per caller: the tools/call response its call received
    mcp_ret,       \* per caller: the value call_tool returned
    shown,         \* per caller: what main() did with the returned value
    initSent,      \* initialize handshakes sent over the client's lifetime
    initOk,        \* handshakes answered with HTTP 200
    initAfterOk,   \* handshakes sent after a handshake was answered with HTTP 200
    issued,        \* the header values of the 200 handshake responses
    invalidated,   \* a tools/call response rejected the session and no handshake succeeded since
    \* ---- extract_search_params_with_llm (app.py:132-187)
    ext_pc,        \* "ready" | "returned"
    natural_query, \* the text the user typed, a sequence of characters
    api_key_set,   \* OPENAI_API_KEY is a non-empty string
    llm,           \* what client.chat.completions.create does for this call
    ext_ret,       \* the dict the function returned
    \* ---- main() of app.py and of app_simple.py: the search handlers
    ui_search,     \* the last search request handed to a transport
    ui_msg         \* what the handler showed instead of searching

tlsVars == <<unverified, tls_flags>>

apiVars == <<api_pc, max_retries, attempt, requests, history, sleepLeft, slept,
             waits, api_ret, tlsVars>>

mcpVars == <<session_id, concurrent, mcp_pc, calls, callLog, noSessionAtEntry,
             lastInit, hdr, lastResp, mcp_ret, shown, initSent, initOk,
             initAfterOk, issued, invalidated>>

extVars == <<ext_pc, natural_query, api_key_set, llm, ext_ret>>

uiVars == <<ui_search, ui_msg>>

vars == <<apiVars, mcpVars, extVars, uiVars>>

\* What an operation of one component leaves alone: the other components.
notApiVars == <<mcpVars, extVars, uiVars>>
notMcpVars == <<apiVars, extVars, uiVars>>
notExtVars == <<apiVars, mcpVars, uiVars>>
notUiVars == <<apiVars, mcpVars, extVars>>

(***************************************************************************)
(* Bounds                                                                  *)
(***************************************************************************)
MaxRetriesArg == 4
MaxCalls == 3
MaxQueryLen == 52

(***************************************************************************)
(* Python values                                                           *)
(***************************************************************************)
None == "<None>"
NotJson == "<not json>"

\* 2 ** k
RECURSIVE Pow2(_)
Pow2(k) == IF k <= 0 THEN 1 ELSE 2 * Pow2(k - 1)

(***************************************************************************)
(* call_jgrants_api                                                        *)
(***************************************************************************)
\* What one `await client.get(url, params=params)` followed by
\* raise_for_status() can produce: an httpx exception, or a response with a
\* status code and a body.
ExceptionKinds == {"ConnectTimeout", "ReadTimeout", "ConnectError", "Other"}
Statuses == {200, 404, 429, 503}
Bodies == {"A", "B", NotJson}

Outcomes ==
    [kind : ExceptionKinds, status : {0}, body : {None}]
        \cup [kind : {"Response"}, status : Statuses, body : Bodies]

\* The call has returned nothing (yet): Python's None where a dict is expected.
NoResult == [tag |-> "None", cause |-> None, status |-> 0, body |-> None]

\* Variant: the success branch returns nothing.
ApiDataMissingReturn(o) == NoResult

\* The dict returned on success: response.json().
ApiData(o) == [tag |-> "data", cause |-> None, status |-> o.status, body |-> o.body]

\* {"error": <message>}: the message is fixed by the except clause that built
\* it, the status code and the body excerpt it quotes.
ApiError(cause, status, body) ==
    [tag |-> "error", cause |-> cause, status |-> status, body |-> body]

\* The message of the except clause that handles outcome o (lines 86-127).
ErrorFor(o) ==
    CASE o.kind = "ConnectTimeout" -> ApiError("ConnectTimeout", 0, None)
      [] o.kind = "ReadTimeout" -> ApiError("ReadTimeout", 0, None)
      [] o.kind = "ConnectError" -> ApiError("ConnectError", 0, None)
      [] o.kind = "Other" -> ApiError("Unexpected", 0, None)
      [] o.kind = "Response" /\ o.status >= 400 -> ApiError("HTTP", o.status, o.body)
      [] OTHER -> ApiError("JSONParse", 0, o.body)

\* return {"error": "最大リトライ回数に達しました"} after the loop (line 129)
RetriesExhaustedError == ApiError("MaxRetries", 0, None)

\* response.raise_for_status() raises HTTPStatusError
RaisesHTTPStatusError(o) == o.kind = "Response" /\ o.status >= 400

\* Variant: only the statuses 400..403 count as client errors.
IsClientErrorNarrow(o) == RaisesHTTPStatusError(o) /\ 400 <= o.status /\ o.status < 404

\* `if 400 <= e.response.status_code < 500` (line 114)
IsClientError(o) == RaisesHTTPStatusError(o) /\ 400 <= o.status /\ o.status < 500

\* response.json() succeeds
JsonParses(o) == o.body # NotJson

\* Variant: a body that does not parse is retried like a transport failure.
RetryableWithParseErrors(o) ==
    \/ o.kind \in ExceptionKinds
    \/ RaisesHTTPStatusError(o) /\ ~IsClientError(o)
    \/ o.kind = "Response" /\ ~RaisesHTTPStatusError(o) /\ ~JsonParses(o)

\* The outcome leads into one of the `if attempt < max_retries - 1` blocks.
Retryable(o) ==
    \/ o.kind \in ExceptionKinds
    \/ RaisesHTTPStatusError(o) /\ ~IsClientError(o)

\* Variant: `attempt < max_retries`, which also retries after the last attempt.
HasAttemptsLeftNoLast(a, n) == a < n

\* `if attempt < max_retries - 1` (lines 89, 95, 101, 118, 124)
HasAttemptsLeft(a, n) == a < n - 1

\* Variant: a constant one-second wait.
BackoffConstant(a) == 1

\* `await asyncio.sleep(2 ** attempt)` (lines 90, 96, 102, 119, 125)
Backoff(a) == Pow2(a)

\* Variant: range(max_retries + 1).
InRangeInclusive(a, n) == a <= n

\* `for attempt in range(max_retries)`: the loop body runs for a < n.
InRange(a, n) == a < n

\* httpx.AsyncClient(..., verify=False, ...) (line 63): the only value the
\* function ever passes; it has no parameter or setting for it.
VerifyCertificates == FALSE

\* The InsecureRequestWarning of an unverified request reaches the caller: it
\* is filtered and disabled at import (lines 22-23) and nothing else logs it.
InsecureWarningShown == FALSE

ApiInit ==
    /\ api_pc = "idle"
    /\ max_retries = 0
    /\ attempt = 0
    /\ requests = 0
    /\ history = <<>>
    /\ sleepLeft = 0
    /\ slept = 0
    /\ waits = <<>>
    /\ api_ret = NoResult
    /\ unverified = 0
    /\ tls_flags = 0

\* call_jgrants_api(endpoint, params, max_retries=n) is entered.
CallJgrantsApi(n) ==
    /\ api_pc = "idle"
    /\ max_retries' = n
    /\ attempt' = 0
    /\ IF InRange(0, n)
         THEN api_pc' = "attempt" /\ api_ret' = api_ret
         ELSE api_pc' = "returned" /\ api_ret' = RetriesExhaustedError
    /\ UNCHANGED <<requests, history, sleepLeft, slept, waits>>
    /\ UNCHANGED tlsVars
    /\ UNCHANGED notApiVars

\* `response = await client.get(url, params=params)` is issued (line 73).
SendRequest ==
    /\ api_pc = "attempt"
    /\ requests' = requests + 1
    /\ api_pc' = "inflight"
    /\ unverified' = IF VerifyCertificates THEN unverified ELSE unverified + 1
    /\ tls_flags' = IF ~VerifyCertificates /\ InsecureWarningShown
                       THEN tls_flags + 1 ELSE tls_flags
    /\ UNCHANGED <<max_retries, attempt, history, sleepLeft, slept, waits, api_ret>>
    /\ UNCHANGED notApiVars

\* The request completes with outcome o and the rest of the loop body runs up
\* to the return or up to the start of asyncio.sleep (lines 73-127).
ReceiveOutcome(o) ==
    /\ api_pc = "inflight"
    /\ history' = Append(history, o)
    /\ IF Retryable(o) /\ HasAttemptsLeft(attempt, max_retries)
         THEN /\ api_pc' = "sleep"
              /\ sleepLeft' = Backoff(attempt)
              /\ slept' = 0
              /\ api_ret' = api_ret
         ELSE /\ api_pc' = "returned"
              /\ api_ret' = IF o.kind = "Response" /\ ~RaisesHTTPStatusError(o)
                                  /\ JsonParses(o)
                              THEN ApiData(o)
                              ELSE ErrorFor(o)
              /\ UNCHANGED <<sleepLeft, slept>>
    /\ UNCHANGED <<max_retries, attempt, requests, waits>>
    /\ UNCHANGED tlsVars
    /\ UNCHANGED notApiVars

\* One second of the running asyncio.sleep passes.
Tick ==
    /\ api_pc = "sleep"
    /\ sleepLeft > 0
    /\ sleepLeft' = sleepLeft - 1
    /\ slept' = slept + 1
    /\ UNCHANGED <<api_pc, max_retries, attempt, requests, history, waits, api_ret>>
    /\ UNCHANGED tlsVars
    /\ UNCHANGED notApiVars

\* asyncio.sleep returns; `continue` takes the loop to its next iteration, or
\* out of the loop to line 129.
WakeUp ==
    /\ api_pc = "sleep"
    /\ sleepLeft = 0
    /\ waits' = Append(waits, slept)
    /\ attempt' = attempt + 1
    /\ IF InRange(attempt + 1, max_retries)
         THEN api_pc' = "attempt" /\ api_ret' = api_ret
         ELSE api_pc' = "returned" /\ api_ret' = RetriesExhaustedError
    /\ UNCHANGED <<max_retries, requests, history, sleepLeft, slept>>
    /\ UNCHANGED tlsVars
    /\ UNCHANGED notApiVars

ApiNext ==
    \/ \E n \in 0..MaxRetriesArg : CallJgrantsApi(n)
    \/ SendRequest
    \/ \E o \in Outcomes : ReceiveOutcome(o)
    \/ Tick
    \/ WakeUp

(***************************************************************************)
(* MCPClient                                                               *)
(***************************************************************************)
Callers == {1, 2}

\* Python truthiness of a session identifier: `if self.session_id`.
Truthy(v) == v # None /\ v # ""

\* ---- what the server can answer
SessionIds == {"s1", "s2"}

\* response.headers.get("mcp-session-id"): None when the header is absent.
HeaderValues == SessionIds \cup {None, ""}

\* The outcome of the initialize POST: an exception, or a status and headers.
InitResponses ==
    [kind : {"Exception"}, status : {0}, header : {None}]
        \cup [kind : {"http"}, status : {500}, header : {None}]
        \cup [kind : {"http"}, status : {200}, header : HeaderValues]

TextResults == "{\"total_count\": 1, \"subsidies\": [..]}"
TextStatus == "{\"status\": \"ok\"}"
NoTextKey == "<item without text>"

\* The items of result.content, each given by its "text" entry.
Items == {TextResults, TextStatus, NotJson, NoTextKey}

ContentLists ==
    {<<>>} \cup {<<a>> : a \in Items} \cup {<<a, TextStatus>> : a \in Items}
        \cup {<<TextStatus, NotJson>>}

SessionExpiredMessage == "Session not found"
RpcMessages == {SessionExpiredMessage, "Unknown tool", None}

ToolResponse(kind, status, envelope, hasContent, content, message) ==
    [kind |-> kind, status |-> status, envelope |-> envelope,
     hasContent |-> hasContent, content |-> content, message |-> message]

\* The outcome of the tools/call POST.
ToolResponses ==
    {ToolResponse(k, 0, None, FALSE, <<>>, None) : k \in {"ConnectionError", "Exception"}}
        \cup {ToolResponse("http", st, None, FALSE, <<>>, None) : st \in {404, 500}}
        \cup {ToolResponse("http", 200, NotJson, FALSE, <<>>, None)}
        \cup {ToolResponse("http", 200, "neither", FALSE, <<>>, None)}
        \cup {ToolResponse("http", 200, "result", FALSE, <<>>, None)}
        \cup {ToolResponse("http", 200, "result", TRUE, c, None) : c \in ContentLists}
        \cup {ToolResponse("http", 200, "error", FALSE, <<>>, m) : m \in RpcMessages}

\* ---- Python values call_tool returns
PyNone == [tag |-> "None", keys |-> {}, error |-> None, src |-> None]

\* {"error": msg}
ErrorDict(msg) == [tag |-> "dict", keys |-> {"error"}, error |-> msg, src |-> None]

\* json.loads(text) for the texts that parse.
JsonLoads(text) ==
    CASE text = TextResults ->
            [tag |-> "dict", keys |-> {"total_count", "subsidies"}, error |-> None, src |-> text]
      [] text = TextStatus ->
            [tag |-> "dict", keys |-> {"status"}, error |-> None, src |-> text]
      [] OTHER -> [tag |-> "dict", keys |-> {}, error |-> None, src |-> text]

JsonLoadsRaises(text) == text = NotJson

\* content[0].get("text", "{}")
ItemText(item) == IF item = NoTextKey THEN "{}" ELSE item

\* result["result"].get("content", [])
ContentOf(r) == IF r.hasContent THEN r.content ELSE <<>>

\* f"HTTPエラー: {response.status_code}"
HttpErrorMessage(status) == "HTTP " \o ToString(status)

\* result["error"].get("message", "不明なエラー")
RpcErrorMessage(r) == IF r.message = None THEN "unknown error" ELSE r.message

InitFailedMessage == "cannot connect (initialize)"
UnreachableMessage == "cannot connect (ConnectionError)"
ExceptionMessage == "exception"

\* Variant: the last content item is taken.
LastItem(content) == content[Len(content)]

\* content[0] (line 101)
FirstItem(content) == content[1]

\* The value call_tool returns for tools/call outcome r (lines 96-110);
\* PyNone where control falls off the end of the function.
CallToolResult(r) ==
    CASE r.kind = "ConnectionError" -> ErrorDict(UnreachableMessage)
      [] r.kind = "Exception" -> ErrorDict(ExceptionMessage)
      [] r.kind = "http" /\ r.status # 200 -> ErrorDict(HttpErrorMessage(r.status))
      [] r.kind = "http" /\ r.status = 200 /\ r.envelope = NotJson ->
            ErrorDict(ExceptionMessage)
      [] r.kind = "http" /\ r.status = 200 /\ r.envelope = "result" ->
            IF Len(ContentOf(r)) > 0
              THEN IF JsonLoadsRaises(ItemText(FirstItem(ContentOf(r))))
                     THEN ErrorDict(ExceptionMessage)
                     ELSE JsonLoads(ItemText(FirstItem(ContentOf(r))))
              ELSE PyNone
      [] r.kind = "http" /\ r.status = 200 /\ r.envelope = "error" ->
            ErrorDict(RpcErrorMessage(r))
      [] OTHER -> PyNone

\* main(): `if "error" in result` (lines 183, 207) on the returned value.
MainOutcome(v) ==
    CASE v.tag = "None" -> "TypeError"
      [] "error" \in v.keys -> "error shown"
      [] OTHER -> "result used"

\* Variant: any HTTP response counts as a successful handshake.
InitializeReturnsTrueAnyStatus(r) == r.kind = "http"

\* MCPClient.initialize returns True (lines 59-61).
InitializeReturnsTrue(r) == r.kind = "http" /\ r.status = 200

NoInit == [kind |-> "none", status |-> 0, header |-> None]
NoResp == ToolResponse("none", 0, None, FALSE, <<>>, None)

McpInit ==
    /\ session_id = None
    /\ mcp_pc = [t \in Callers |-> "idle"]
    /\ calls = 0
    /\ callLog = [t \in Callers |-> <<>>]
    /\ noSessionAtEntry = [t \in Callers |-> FALSE]
    /\ lastInit = [t \in Callers |-> NoInit]
    /\ hdr = [t \in Callers |-> None]
    /\ lastResp = [t \in Callers |-> NoResp]
    /\ mcp_ret = [t \in Callers |-> PyNone]
    /\ shown = [t \in Callers |-> "nothing"]
    /\ initSent = 0
    /\ initOk = 0
    /\ initAfterOk = 0
    /\ issued = {}
    /\ invalidated = FALSE

\* call_tool is entered and runs to its first request: `if not
\* self.session_id` (line 70) and, without a session, the initialize POST.
CallTool(t) ==
    /\ mcp_pc[t] = "idle"
    /\ calls < MaxCalls
    /\ concurrent \/ \A u \in Callers : mcp_pc[u] = "idle"
    /\ calls' = calls + 1
    /\ noSessionAtEntry' = [noSessionAtEntry EXCEPT ![t] = ~Truthy(session_id)]
    /\ lastInit' = [lastInit EXCEPT ![t] = NoInit]
    /\ lastResp' = [lastResp EXCEPT ![t] = NoResp]
    /\ hdr' = [hdr EXCEPT ![t] = None]
    /\ mcp_ret' = [mcp_ret EXCEPT ![t] = PyNone]
    /\ shown' = [shown EXCEPT ![t] = "nothing"]
    /\ IF ~Truthy(session_id)
         THEN /\ mcp_pc' = [mcp_pc EXCEPT ![t] = "await_init"]
              /\ callLog' = [callLog EXCEPT ![t] = <<"initialize">>]
              /\ initSent' = initSent + 1
              /\ initAfterOk' = IF initOk > 0 THEN initAfterOk + 1 ELSE initAfterOk
         ELSE /\ mcp_pc' = [mcp_pc EXCEPT ![t] = "headers"]
              /\ callLog' = [callLog EXCEPT ![t] = <<>>]
              /\ UNCHANGED <<initSent, initAfterOk>>
    /\ UNCHANGED <<session_id, concurrent, initOk, issued, invalidated>>
    /\ UNCHANGED notMcpVars

\* The initialize POST completes with r; initialize stores the header and
\* returns True, or returns False and call_tool returns its error (lines 59-72).
InitializeReturns(t, r) ==
    /\ mcp_pc[t] = "await_init"
    /\ lastInit' = [lastInit EXCEPT ![t] = r]
    /\ IF InitializeReturnsTrue(r)
         THEN /\ session_id' = r.header
              /\ mcp_pc' = [mcp_pc EXCEPT ![t] = "headers"]
              /\ UNCHANGED <<mcp_ret, shown>>
         ELSE /\ mcp_pc' = [mcp_pc EXCEPT ![t] = "idle"]
              /\ mcp_ret' = [mcp_ret EXCEPT ![t] = ErrorDict(InitFailedMessage)]
              /\ shown' = [shown EXCEPT ![t] = MainOutcome(ErrorDict(InitFailedMessage))]
              /\ UNCHANGED session_id
    /\ initOk' = IF r.kind = "http" /\ r.status = 200 THEN initOk + 1 ELSE initOk
    /\ issued' = IF r.kind = "http" /\ r.status = 200 THEN issued \cup {r.header} ELSE issued
    /\ invalidated' = IF r.kind = "http" /\ r.status = 200 THEN FALSE ELSE invalidated
    /\ UNCHANGED <<concurrent, calls, callLog, noSessionAtEntry, hdr, lastResp,
                   initSent, initAfterOk>>
    /\ UNCHANGED notMcpVars

\* `if self.session_id:` (line 78); without a session the tools/call POST is
\* sent with no mcp-session-id header (line 81).
BuildHeaders(t) ==
    /\ mcp_pc[t] = "headers"
    /\ IF Truthy(session_id)
         THEN /\ mcp_pc' = [mcp_pc EXCEPT ![t] = "set_header"]
              /\ UNCHANGED <<callLog, hdr>>
         ELSE /\ mcp_pc' = [mcp_pc EXCEPT ![t] = "await_call"]
              /\ callLog' = [callLog EXCEPT ![t] = Append(@, "tools/call")]
              /\ hdr' = [hdr EXCEPT ![t] = None]
    /\ UNCHANGED <<session_id, concurrent, calls, noSessionAtEntry, lastInit,
                   lastResp, mcp_ret, shown, initSent, initOk, initAfterOk,
                   issued, invalidated>>
    /\ UNCHANGED notMcpVars

\* `headers["mcp-session-id"] = self.session_id` (line 79) and the tools/call
\* POST (line 81).
SendToolsCall(t) ==
    /\ mcp_pc[t] = "set_header"
    /\ hdr' = [hdr EXCEPT ![t] = session_id]
    /\ callLog' = [callLog EXCEPT ![t] = Append(@, "tools/call")]
    /\ mcp_pc' = [mcp_pc EXCEPT ![t] = "await_call"]
    /\ UNCHANGED <<session_id, concurrent, calls, noSessionAtEntry, lastInit,
                   lastResp, mcp_ret, shown, initSent, initOk, initAfterOk,
                   issued, invalidated>>
    /\ UNCHANGED notMcpVars

\* A tools/call outcome that tells the client its session is no longer valid.
SessionRejected(r) ==
    \/ r.kind = "http" /\ r.status = 404
    \/ r.kind = "http" /\ r.status = 200 /\ r.envelope = "error"
         /\ r.message = SessionExpiredMessage

\* Variant: a ConnectionError makes the client send the tools/call POST again.
ToolsCallReturnsRetrying(t, r) ==
    /\ mcp_pc[t] = "await_call"
    /\ lastResp' = [lastResp EXCEPT ![t] = r]
    /\ IF r.kind = "ConnectionError" /\ Len(callLog[t]) < 3
         THEN /\ callLog' = [callLog EXCEPT ![t] = Append(@, "tools/call")]
              /\ UNCHANGED <<mcp_ret, shown, mcp_pc>>
         ELSE /\ mcp_ret' = [mcp_ret EXCEPT ![t] = CallToolResult(r)]
              /\ shown' = [shown EXCEPT ![t] = MainOutcome(CallToolResult(r))]
              /\ mcp_pc' = [mcp_pc EXCEPT ![t] = "idle"]
              /\ UNCHANGED callLog
    /\ invalidated' = (invalidated \/ (SessionRejected(r) /\ Truthy(hdr[t])))
    /\ UNCHANGED <<session_id, concurrent, calls, noSessionAtEntry,
                   lastInit, hdr, initSent, initOk, initAfterOk, issued>>
    /\ UNCHANGED notMcpVars

\* Variant: a response that rejects the session clears the stored identifier.
ToolsCallReturnsClearing(t, r) ==
    /\ mcp_pc[t] = "await_call"
    /\ lastResp' = [lastResp EXCEPT ![t] = r]
    /\ mcp_ret' = [mcp_ret EXCEPT ![t] = CallToolResult(r)]
    /\ shown' = [shown EXCEPT ![t] = MainOutcome(CallToolResult(r))]
    /\ mcp_pc' = [mcp_pc EXCEPT ![t] = "idle"]
    /\ invalidated' = (invalidated \/ (SessionRejected(r) /\ Truthy(hdr[t])))
    /\ session_id' = IF SessionRejected(r) THEN None ELSE session_id
    /\ UNCHANGED <<concurrent, calls, callLog, noSessionAtEntry,
                   lastInit, hdr, initSent, initOk, initAfterOk, issued>>
    /\ UNCHANGED notMcpVars

\* The tools/call POST completes with r; call_tool returns, and main() looks
\* for an "error" entry in what it returned (lines 96-110, 183, 207).
ToolsCallReturns(t, r) ==
    /\ mcp_pc[t] = "await_call"
    /\ lastResp' = [lastResp EXCEPT ![t] = r]
    /\ mcp_ret' = [mcp_ret EXCEPT ![t] = CallToolResult(r)]
    /\ shown' = [shown EXCEPT ![t] = MainOutcome(CallToolResult(r))]
    /\ mcp_pc' = [mcp_pc EXCEPT ![t] = "idle"]
    /\ invalidated' = (invalidated \/ (SessionRejected(r) /\ Truthy(hdr[t])))
    /\ UNCHANGED <<session_id, concurrent, calls, callLog, noSessionAtEntry,
                   lastInit, hdr, initSent, initOk, initAfterOk, issued>>
    /\ UNCHANGED notMcpVars

McpNext ==
    \/ \E t \in Callers : CallTool(t)
    \/ \E t \in Callers : \E r \in InitResponses : InitializeReturns(t, r)
    \/ \E t \in Callers : BuildHeaders(t)
    \/ \E t \in Callers : SendToolsCall(t)
    \/ \E t \in Callers : \E r \in ToolResponses : ToolsCallReturns(t, r)

(***************************************************************************)
(* extract_search_params_with_llm                                          *)
(***************************************************************************)
\* natural_query[:50] (lines 180, 187)
KeywordCap == 50

\* The texts a user can type: the text of length n has the characters 1..n.
QueryOfLen(n) == [i \in 1..n |-> i]
Queries == {QueryOfLen(n) : n \in 0..MaxQueryLen}

\* A keyword the model extracted, as a sequence of characters.
LlmKeyword == <<100, 101>>

\* text[:n]
Prefix(text, n) == SubSeq(text, 1, IF Len(text) < n THEN Len(text) ELSE n)

\* A dict with string keys: a function whose domain is its keys.
EmptyDict == <<>>
HasKey(d, k) == k \in DOMAIN d
\* Variant: the assignment replaces the dict by one holding only the key.
SetItemOnlyKey(d, k, v) == [x \in {k} |-> v]

SetItem(d, k, v) == [x \in (DOMAIN d) \cup {k} |-> IF x = k THEN v ELSE d[x]]

\* The JSON objects the model can answer with: keyword absent, empty or
\* given, each optional field absent or given.
LlmObject(kw, industry, area) ==
    [x \in (IF kw = None THEN {} ELSE {"keyword"})
             \cup (IF industry THEN {"industry"} ELSE {})
             \cup (IF area THEN {"target_area_search"} ELSE {})
        |-> CASE x = "keyword" -> (IF kw = "empty" THEN <<>> ELSE LlmKeyword)
              [] x = "industry" -> "manufacturing"
              [] OTHER -> "Tokyo"]

LlmObjects ==
    {LlmObject(kw, i, a) : kw \in {None, "empty", "given"}, i \in BOOLEAN, a \in BOOLEAN}

\* What the language-model call does: the create() call raises, or its
\* message content is no JSON, a JSON value that is no object, or an object.
LlmOutcomes ==
    [kind : {"APIConnectionError", "RateLimitError"}, json : {None}, obj : {EmptyDict}]
        \cup [kind : {"content"}, json : {"invalid", "array"}, obj : {EmptyDict}]
        \cup [kind : {"content"}, json : {"object"}, obj : LlmObjects]

\* {"error": "OpenAI APIキーが設定されていません"} (line 136)
NoApiKeyError == [x \in {"error"} |-> "OpenAI API key is not set"]

\* {"keyword": natural_query[:50]} (line 187)
FallbackQuery(q) == [x \in {"keyword"} |-> Prefix(q, KeywordCap)]

\* `not params["keyword"]` for a string
Falsy(v) == v = <<>>

\* The statements of the try block raise (lines 165-180): the create() call,
\* json.loads, or the keyword test and assignment on a value that is no dict.
TryBlockRaises(l) == l.kind # "content" \/ l.json # "object"

\* extract_search_params_with_llm(natural_query) (lines 135-187)
ExtractSearchParams(q, keySet, l) ==
    IF ~keySet
      THEN NoApiKeyError
      ELSE IF TryBlockRaises(l)
             THEN FallbackQuery(q)
             ELSE IF ~HasKey(l.obj, "keyword") \/ Falsy(l.obj["keyword"])
                    THEN SetItem(l.obj, "keyword", Prefix(q, KeywordCap))
                    ELSE l.obj

NoLlmCall == [kind |-> "content", json |-> "invalid", obj |-> EmptyDict]

\* No call of the extractor is under way.
ExtIdle ==
    /\ ext_pc = "ready"
    /\ natural_query = <<>>
    /\ api_key_set = FALSE
    /\ llm = NoLlmCall
    /\ ext_ret = EmptyDict

\* The inputs of one call: the text, the environment and the model's answer.
ExtInputs ==
    /\ ext_pc = "ready"
    /\ natural_query \in Queries
    /\ api_key_set \in BOOLEAN
    /\ llm \in LlmOutcomes
    /\ ext_ret = EmptyDict

\* extract_search_params_with_llm(natural_query) runs and returns.
ExtractSearchParamsWithLlm ==
    /\ ext_pc = "ready"
    /\ ext_ret' = ExtractSearchParams(natural_query, api_key_set, llm)
    /\ ext_pc' = "returned"
    /\ UNCHANGED <<natural_query, api_key_set, llm>>
    /\ UNCHANGED notExtVars

ExtNext == ExtractSearchParamsWithLlm

(***************************************************************************)
(* The search handlers of main()                                           *)
(***************************************************************************)
\* "事業": the preset of the sidebar keyword fields and the default of
\* extracted_params.get("keyword", "事業").
DefaultKeyword == <<200, 201>>

\* What a keyword text_input can hold when its button is pressed.
KeywordInputs == Queries \cup {DefaultKeyword}

\* d.get(k, default)
DictGet(d, k, default) == IF HasKey(d, k) THEN d[k] ELSE default

\* The arguments of a search handed to a transport: the keyword and whether
\* the optional industry parameter was added.
SearchRequest(via, keyword, industry) ==
    [via |-> via, keyword |-> keyword, industry |-> industry]

NoSearch == SearchRequest("none", <<>>, FALSE)

UiInit ==
    /\ ui_search = NoSearch
    /\ ui_msg = "none"

\* app.py, the free-text search button with text q, the language model
\* answering l (lines 263-301).
FreeTextSearch(q, l) ==
    /\ IF q = <<>>
         THEN /\ ui_msg' = "enter a keyword"
              /\ UNCHANGED ui_search
         ELSE IF HasKey(ExtractSearchParams(q, api_key_set, l), "error")
                THEN /\ ui_msg' = "extraction error"
                     /\ UNCHANGED ui_search
                ELSE /\ ui_search' =
                          SearchRequest("call_jgrants_api (free text)",
                              DictGet(ExtractSearchParams(q, api_key_set, l),
                                      "keyword", DefaultKeyword),
                              HasKey(ExtractSearchParams(q, api_key_set, l), "industry"))
                     /\ ui_msg' = "none"
    /\ UNCHANGED notUiVars

\* app.py, the sidebar button 詳細検索を実行 with keyword field kw (lines 426-449).
SidebarSearch(kw, industry) ==
    /\ ui_search' = SearchRequest("call_jgrants_api (sidebar)", kw, industry)
    /\ ui_msg' = "none"
    /\ UNCHANGED notUiVars

\* app_simple.py, the search button with keyword field kw:
\* `if search_button and keyword` (lines 189-206).
SimpleSearch(kw, industry) ==
    /\ kw # <<>>
    /\ ui_search' = SearchRequest("call_tool (search_subsidies)", kw, industry)
    /\ ui_msg' = "none"
    /\ UNCHANGED notUiVars

UiNext ==
    \/ \E q \in Queries : \E l \in LlmOutcomes : FreeTextSearch(q, l)
    \/ \E kw \in KeywordInputs : \E i \in BOOLEAN : SidebarSearch(kw, i)
    \/ \E kw \in KeywordInputs : \E i \in BOOLEAN : SimpleSearch(kw, i)

(***************************************************************************)
(* Specifications                                                          *)
(***************************************************************************)
\* Module load: no call is running, the client of st.session_state is fresh.
InitSequential == ApiInit /\ McpInit /\ concurrent = FALSE /\ ExtIdle /\ UiInit

InitConcurrent == ApiInit /\ McpInit /\ concurrent = TRUE /\ ExtIdle /\ UiInit

InitExtract == ApiInit /\ McpInit /\ concurrent = FALSE /\ ExtInputs /\ UiInit

\* Module load of the two apps: OPENAI_API_KEY is set or not, nothing searched.
InitSearch ==
    /\ ApiInit /\ McpInit /\ concurrent = FALSE /\ UiInit
    /\ ext_pc = "ready"
    /\ natural_query = <<>>
    /\ api_key_set \in BOOLEAN
    /\ llm = NoLlmCall
    /\ ext_ret = EmptyDict

\* One call of call_jgrants_api.
SpecRetry == InitSequential /\ [][ApiNext]_vars

\* One MCPClient whose callers call call_tool one after the other, as the
\* reruns of main() do.
SpecSession == InitSequential /\ [][McpNext]_vars

\* One MCPClient whose callers may call call_tool at the same time.
SpecSessionConc == InitConcurrent /\ [][McpNext]_vars

\* One call of extract_search_params_with_llm, for every text, environment
\* and answer of the language model.
SpecExtract == InitExtract /\ [][ExtNext]_vars

\* The search buttons of the two apps, pressed in any order with any input.
SpecSearch == InitSearch /\ [][UiNext]_vars

(***************************************************************************)
(* Claims about call_jgrants_api                                           *)
(***************************************************************************)
Last(s) == s[Len(s)]

AllRetryableFailures(h) ==
    \A i \in 1..Len(h) :
        \/ h[i].kind \in {"ConnectTimeout", "ReadTimeout", "ConnectError", "Other"}
        \/ h[i].kind = "Response" /\ h[i].status \in 500..599

Is4xx(o) == o.kind = "Response" /\ o.status \in 400..499

Is200Parseable(o) == o.kind = "Response" /\ o.status = 200 /\ o.body # NotJson

\* The cause an error result must name for a failed attempt.
CauseOf(o) ==
    CASE o.kind = "ConnectTimeout" -> <<"ConnectTimeout", 0, None>>
      [] o.kind = "ReadTimeout" -> <<"ReadTimeout", 0, None>>
      [] o.kind = "ConnectError" -> <<"ConnectError", 0, None>>
      [] o.kind = "Other" -> <<"Unexpected", 0, None>>
      [] OTHER -> <<"HTTP", o.status, o.body>>

\* C1: when every attempt of a call with max_retries = n >= 1 failed with a
\* retryable cause, the call has sent exactly n requests when it returns, and
\* it returns an error result naming the cause of the n-th failure.
C1_ExhaustedReturnsLastCause ==
    (api_pc = "returned" /\ max_retries >= 1 /\ AllRetryableFailures(history))
        => /\ requests = max_retries
           /\ Len(history) = max_retries
           /\ api_ret.tag = "error"
           /\ <<api_ret.cause, api_ret.status, api_ret.body>> = CauseOf(Last(history))

C1_Witness ==
    /\ api_pc = "returned"
    /\ max_retries = 3
    /\ requests = 3
    /\ Len(history) = 3
    /\ history[1].kind = "ConnectTimeout"
    /\ history[2] = [kind |-> "Response", status |-> 503, body |-> "A"]
    /\ history[3] = [kind |-> "Response", status |-> 503, body |-> "B"]
    /\ api_ret = [tag |-> "error", cause |-> "HTTP", status |-> 503, body |-> "B"]

\* C2: an HTTP 4xx response is always the last outcome of its call: the call
\* has returned an HTTP error result, no request follows it and the number of
\* completed waits is the number of attempts before it.
C2_ClientErrorIsTerminal ==
    \A i \in 1..Len(history) :
        Is4xx(history[i])
            => /\ i = Len(history)
               /\ api_pc = "returned"
               /\ requests = i
               /\ Len(waits) = i - 1
               /\ sleepLeft = 0
                   /\ api_ret.tag = "error"
               /\ api_ret.cause = "HTTP"
               /\ api_ret.status = history[i].status

C2_Witness ==
    /\ api_pc = "returned"
    /\ max_retries = 3
    /\ Len(history) = 1
    /\ history[1].kind = "Response"
    /\ history[1].status = 404
    /\ requests = 1
    /\ waits = <<>>

\* C3: when attempt k+1 is the first to return HTTP 200 with a parseable body,
\* the call returns that attempt's payload after k+1 requests and k waits.
C3_SuccessAfterRetries ==
    (api_pc = "returned" /\ Len(history) >= 1 /\ Is200Parseable(Last(history)))
        => /\ api_ret.tag = "data"
           /\ api_ret.body = Last(history).body
           /\ requests = Len(history)
           /\ Len(waits) = Len(history) - 1
           /\ Len(history) <= max_retries

C3_Witness ==
    /\ api_pc = "returned"
    /\ max_retries = 3
    /\ Len(history) = 3
    /\ history[1] = [kind |-> "Response", status |-> 503, body |-> "A"]
    /\ history[2] = [kind |-> "Response", status |-> 503, body |-> "A"]
    /\ history[3] = [kind |-> "Response", status |-> 200, body |-> "B"]
    /\ api_ret.tag = "data"
    /\ api_ret.body = "B"
    /\ Len(waits) = 2

\* C4: the i-th completed wait of a call lasted 2^(i-1) seconds, the waits are
\* strictly increasing, and a request is only ever in preparation or in flight
\* when every wait before it has completed in full.
C4_ExponentialBackoff ==
    /\ \A i \in 1..Len(waits) : waits[i] = 1 * Pow2(i - 1)
    /\ \A i \in 1..Len(waits) : \A j \in 1..Len(waits) : i < j => waits[i] < waits[j]
    /\ requests <= Len(waits) + 1
    /\ api_pc \in {"attempt", "inflight"} => (Len(waits) = attempt /\ sleepLeft = 0)
    /\ api_pc = "inflight" => requests = Len(waits) + 1
    /\ api_pc = "sleep" => (requests = Len(waits) + 1 /\ Len(history) = requests)

C4_Witness ==
    /\ waits = <<1, 2, 4>>
    /\ api_pc = "inflight"
    /\ requests = 4
    /\ history[1].kind = "ReadTimeout"
    /\ history[2].kind = "Response"
    /\ history[3].kind = "ConnectError"

Is2xxUnparseable(o) ==
    o.kind = "Response" /\ o.status \in 200..299 /\ o.body = NotJson

\* C14: a 2xx response whose body does not parse as JSON is always the last
\* outcome of its call: the call has returned a parse-error result, no request
\* and no wait follow it, whatever number of attempts remained.
C14_ParseErrorIsTerminal ==
    \A i \in 1..Len(history) :
        Is2xxUnparseable(history[i])
            => /\ i = Len(history)
               /\ api_pc = "returned"
               /\ api_ret.tag = "error"
               /\ api_ret.cause = "JSONParse"
               /\ requests = i
               /\ Len(waits) = i - 1
               /\ sleepLeft = 0

C14_Witness ==
    /\ api_pc = "returned"
    /\ max_retries = 4
    /\ Len(history) = 2
    /\ history[1].kind = "ReadTimeout"
    /\ history[2] = [kind |-> "Response", status |-> 200, body |-> NotJson]
    /\ requests = 2
    /\ waits = <<1>>
    /\ api_ret.cause = "JSONParse"

\* C20: when a call returns, it has completed one wait less than it has sent
\* requests (none when it sent none), no sleep is running, and a call with
\* max_retries = 0 returns an error result without sending a request.
C20_WaitsAreRequestsMinusOne ==
    api_pc = "returned"
        => /\ requests >= 1 => Len(waits) = requests - 1
           /\ requests = 0 => waits = <<>>
           /\ sleepLeft = 0
           /\ requests <= max_retries
           /\ max_retries = 0 => (requests = 0 /\ api_ret.tag = "error")

C20_Witness ==
    /\ api_pc = "returned"
    /\ max_retries = 3
    /\ requests = 3
    /\ waits = <<1, 2>>
    /\ Len(history) = 3
    /\ history[3].kind = "ConnectError"
    /\ api_ret.tag = "error"

\* C17: certificate validation is on unless configured otherwise, and every
\* request sent without it has been flagged to the caller.
C17_UnverifiedRequestsAreFlagged ==
    /\ requests > 0 => (unverified = 0 \/ tls_flags >= unverified)
    /\ unverified > 0 => tls_flags > 0

(***************************************************************************)
(* Claims about MCPClient                                                  *)
(***************************************************************************)
Sent(t, method) == \E i \in 1..Len(callLog[t]) : callLog[t][i] = method

HandshakeFailed(r) == r.kind = "Exception" \/ (r.kind = "http" /\ r.status # 200)

IsErrorResult(v) == v.tag = "dict" /\ "error" \in v.keys

\* C5: a call_tool that finds no session identifier sends one initialize
\* handshake, and sends it first; no call sends more than one handshake or a
\* handshake after its tools/call; a call whose handshake failed has sent
\* nothing else and has returned an error result.
C5_LazyInitializeOnceBeforeToolCall ==
    \A t \in Callers :
        /\ callLog[t] \in {<<>>, <<"initialize">>, <<"tools/call">>,
                           <<"initialize", "tools/call">>}
        /\ noSessionAtEntry[t] => (Len(callLog[t]) >= 1 /\ callLog[t][1] = "initialize")
        /\ HandshakeFailed(lastInit[t])
             => /\ callLog[t] = <<"initialize">>
                /\ mcp_pc[t] = "idle"
                /\ lastResp[t] = NoResp
                /\ IsErrorResult(mcp_ret[t])

C5_Witness ==
    /\ noSessionAtEntry[1]
    /\ lastInit[1].kind = "http"
    /\ lastInit[1].status = 500
    /\ callLog[1] = <<"initialize">>
    /\ mcp_pc[1] = "idle"
    /\ IsErrorResult(mcp_ret[1])
    /\ noSessionAtEntry[2]
    /\ lastInit[2].status = 200
    /\ callLog[2] = <<"initialize", "tools/call">>

\* C6: once a handshake was answered with HTTP 200, no later call_tool sends
\* another handshake (the session not having been rejected since).
C6_InitializeAtMostOnce == invalidated \/ initAfterOk = 0

\* C7: after a tools/call response that rejected the session identifier the
\* client holds no session identifier.
C7_RejectedSessionIsCleared == invalidated => ~Truthy(session_id)

\* C8: calls that overlap on a client without a session identifier never
\* have two handshakes outstanding, and send one handshake between them.
C8_InitializeIsMutuallyExclusive ==
    /\ Cardinality({t \in Callers : mcp_pc[t] = "await_init"}) <= 1
    /\ \A t \in Callers : \A u \in Callers :
           (t # u /\ mcp_pc[t] # "idle" /\ mcp_pc[u] # "idle")
               => ~(Sent(t, "initialize") /\ Sent(u, "initialize"))

EmptyResultEnvelope(r) ==
    /\ r.kind = "http"
    /\ r.status = 200
    /\ r.envelope = "result"
    /\ (~r.hasContent \/ r.content = <<>>)

\* C9: a call whose tools/call response was a 200 result envelope with an
\* empty or absent content list has returned an error result, in which main()
\* finds the error entry.
C9_EmptyContentIsError ==
    \A t \in Callers :
        (mcp_pc[t] = "idle" /\ EmptyResultEnvelope(lastResp[t]))
            => (IsErrorResult(mcp_ret[t]) /\ shown[t] = "error shown")

CountSent(t, method) == Cardinality({i \in 1..Len(callLog[t]) : callLog[t][i] = method})

TransportFailure(r) == r.kind \in {"ConnectionError", "Exception"}

\* C15: a call_tool sends at most one initialize and at most one tools/call
\* request, and a call one of whose requests failed in transport has returned
\* an error result without having sent that request a second time.
C15_NoRetry ==
    \A t \in Callers :
        /\ CountSent(t, "initialize") <= 1
        /\ CountSent(t, "tools/call") <= 1
        /\ lastInit[t].kind = "Exception"
             => /\ mcp_pc[t] = "idle"
                /\ IsErrorResult(mcp_ret[t])
                /\ CountSent(t, "initialize") = 1
                /\ CountSent(t, "tools/call") = 0
        /\ TransportFailure(lastResp[t])
             => /\ mcp_pc[t] = "idle"
                /\ IsErrorResult(mcp_ret[t])
                /\ CountSent(t, "tools/call") = 1

C15_Witness ==
    /\ lastInit[2].kind = "Exception"
    /\ callLog[2] = <<"initialize">>
    /\ mcp_pc[2] = "idle"
    /\ lastResp[1].kind = "ConnectionError"
    /\ callLog[1] = <<"initialize", "tools/call">>
    /\ mcp_pc[1] = "idle"
    /\ IsErrorResult(mcp_ret[1])

\* C16: a call_tool that has finished has returned a value: a parsed payload
\* or an error dict, never nothing.
C16_AlwaysReturnsAValue ==
    \A t \in Callers :
        (mcp_pc[t] = "idle" /\ callLog[t] # <<>>) => mcp_ret[t].tag # "None"

\* C18: for a 200 response, a result envelope whose first content item holds
\* JSON text makes call_tool return the value of that text, whatever items
\* follow, and an error envelope with a message makes it return an error dict
\* with that message; a tools/call request in flight carries the stored
\* session identifier, which a handshake issued, exactly when one is stored.
C18_FirstItemAndSessionHeader ==
    \A t \in Callers :
        /\ (mcp_pc[t] = "idle" /\ lastResp[t].kind = "http" /\ lastResp[t].status = 200
              /\ lastResp[t].envelope = "result" /\ lastResp[t].hasContent
              /\ Len(lastResp[t].content) > 0
              /\ lastResp[t].content[1] \in {TextResults, TextStatus})
             => /\ mcp_ret[t].tag = "dict"
                /\ mcp_ret[t].src = lastResp[t].content[1]
                /\ "error" \notin mcp_ret[t].keys
        /\ (mcp_pc[t] = "idle" /\ lastResp[t].kind = "http" /\ lastResp[t].status = 200
              /\ lastResp[t].envelope = "error" /\ lastResp[t].message # None)
             => /\ IsErrorResult(mcp_ret[t])
                /\ mcp_ret[t].error = lastResp[t].message
        /\ mcp_pc[t] = "await_call"
             => /\ hdr[t] = (IF session_id \in {None, ""} THEN None ELSE session_id)
                /\ hdr[t] # None => hdr[t] \in issued

C18_Witness ==
    /\ mcp_pc[1] = "idle"
    /\ hdr[1] = "s1"
    /\ session_id = "s1"
    /\ lastResp[1].envelope = "result"
    /\ lastResp[1].content = <<TextResults, TextStatus>>
    /\ mcp_ret[1].src = TextResults
    /\ mcp_pc[2] = "idle"
    /\ hdr[2] = "s1"
    /\ lastInit[2].kind = "none"
    /\ lastResp[2].envelope = "error"
    /\ lastResp[2].message = "Unknown tool"
    /\ mcp_ret[2].error = "Unknown tool"

\* C19: a new client has sent nothing and holds no session identifier; it
\* holds none until a handshake is answered with HTTP 200, and the stored
\* identifier only ever changes when a handshake is answered with HTTP 200:
\* a failed handshake and every tools/call outcome leave it as it is.
C19_SessionIdOnlySetBySuccessfulHandshake ==
    /\ (initSent = 0 /\ session_id = None /\ \A t \in Callers : callLog[t] = <<>>)
    /\ [](initOk = 0 => session_id = None)
    /\ [][session_id' # session_id
            => \E t \in Callers :
                  /\ mcp_pc[t] = "await_init"
                  /\ lastInit'[t].kind = "http"
                  /\ lastInit'[t].status = 200
                  /\ session_id' = lastInit'[t].header]_vars

C19_Witness ==
    /\ lastInit[2].kind = "http"
    /\ lastInit[2].status = 500
    /\ mcp_pc[2] = "idle"
    /\ session_id = "s1"
    /\ lastInit[1].status = 200
    /\ lastResp[1].kind = "http"
    /\ lastResp[1].status = 404
    /\ mcp_pc[1] = "idle"

(***************************************************************************)
(* Claims about extract_search_params_with_llm                             *)
(***************************************************************************)
\* The language-understanding call delivered nothing usable.
LlmUnusable ==
    \/ ~api_key_set
    \/ llm.kind \in {"APIConnectionError", "RateLimitError"}
    \/ llm.kind = "content" /\ llm.json = "invalid"

\* C10: when the language-understanding call delivers nothing usable, the
\* extractor returns exactly {keyword: first 50 characters of the text}, and
\* no error result.
C10_FailureDegradesToKeyword ==
    (ext_pc = "returned" /\ LlmUnusable)
        => /\ DOMAIN ext_ret = {"keyword"}
           /\ ext_ret["keyword"] = SubSeq(natural_query, 1,
                                          IF Len(natural_query) < 50
                                            THEN Len(natural_query) ELSE 50)

\* The first min(50, length) characters of the text.
Truncated(text) == SubSeq(text, 1, IF Len(text) < 50 THEN Len(text) ELSE 50)

\* The returned query took its keyword from the text, not from the model.
OnFallbackPath ==
    \/ llm.kind \in {"APIConnectionError", "RateLimitError"}
    \/ llm.kind = "content" /\ llm.json # "object"
    \/ llm.kind = "content" /\ llm.json = "object"
         /\ ("keyword" \notin DOMAIN llm.obj \/ llm.obj["keyword"] = <<>>)

\* C11: for every text, the empty one included, the query the extractor
\* returns has a keyword that is not empty and that, on the fallback path, is
\* the truncated text.
C11_KeywordNeverEmpty ==
    (ext_pc = "returned" /\ "error" \notin DOMAIN ext_ret)
        => /\ "keyword" \in DOMAIN ext_ret
           /\ ext_ret["keyword"] # <<>>
           /\ OnFallbackPath => ext_ret["keyword"] = Truncated(natural_query)

C13_SubmittedKeywordNonEmpty == ui_search.via # "none" => ui_search.keyword # <<>>

====
